---- MODULE Spec2Model ----
(***************************************************************************)
(* dials: composition of a configuration snapshot from ordered sources     *)
(* (compose / overlay), construction of the handle (Params.Config) and     *)
(* the watch monitor (Dials.monitor) that recomposes, verifies and         *)
(* republishes the snapshot.                                               *)
(*                                                                         *)
(* A Go pointer is a sequence of length <= 1: <<>> is nil, <<x>> points    *)
(* to x.  A config value is [A, N |-> [X, Y]]: one leaf field and one      *)
(* nested struct with two leaves.  The pointerified (optional) shape has   *)
(* a pointer in every slot.                                                *)
(***************************************************************************)
EXTENDS Integers, Sequences, FiniteSets, TLC

\* ------------------------------------------------------------ bounds
\* number of sources handed to Config
NumSources == 2
\* number of deliver calls the watching sources make in one behaviour
MaxEvents == 2
\* longest source stack handed to compose in SpecCompose
MaxStack == 3

Nil == <<>>
Ptr(x) == <<x>>

Sources == 1..NumSources

\* ------------------------------------------------------------ values
\* leaf values a source can set
LeafVals == {1, 2}
OptLeaf == {Nil} \cup {Ptr(v) : v \in LeafVals}
OptNested == {Nil} \cup {Ptr(n) : n \in [X : OptLeaf, Y : OptLeaf]}

\* every well-shaped pointerified value, and one whose shape does not match
\* the destination struct
OptValues == [shape : {"ok"}, A : OptLeaf, N : OptNested]
BadShape == [shape |-> "bad", A |-> Nil, N |-> Nil]

\* the instance of the config struct the caller hands to Config
DefaultCfg == [A |-> 5, N |-> [X |-> 6, Y |-> 7]]
\* what the caller may later write into its own instance
ScribbledCfg == [A |-> 8, N |-> [X |-> 8, Y |-> 8]]

\* the values the sources of the watch model return and emit
SetA(v) == [shape |-> "ok", A |-> Ptr(v), N |-> Nil]
SetX(v) == [shape |-> "ok", A |-> Nil, N |-> Ptr([X |-> Ptr(v), Y |-> Nil])]
SourceVals == {SetA(1), SetX(1), BadShape}

\* ------------------------------------------------------------ overlay
\* a set leaf replaces the destination, an unset one leaves it alone
overlayLeaf(dst, opt) == IF opt = Nil THEN dst ELSE opt[1]

\* merge one pointerified value into the working instance; a nested struct
\* is merged leaf by leaf, in place
overlayStruct(value, sv) ==
    IF sv.shape # "ok"
    THEN [err |-> "merge", value |-> value]
    ELSE [err |-> "none",
          value |-> [A |-> overlayLeaf(value.A, sv.A),
                     N |-> IF sv.N = Nil
                           THEN value.N
                           ELSE [X |-> overlayLeaf(value.N.X, sv.N[1].X),
                                 Y |-> overlayLeaf(value.N.Y, sv.N[1].Y)]]]

\* realDeepCopy: a fresh object with the same contents
realDeepCopy(p) == Ptr(p[1])

\* the loop of compose over sources[i..], value being the working instance
RECURSIVE composeFrom(_, _, _)
composeFrom(value, sources, i) ==
    IF i > Len(sources)
    THEN [val |-> Ptr(value), err |-> "none"]
    ELSE LET o == overlayStruct(value, sources[i].value)
         IN  IF o.err # "none"
             THEN [val |-> Nil, err |-> o.err]
             ELSE composeFrom(o.value, sources, i + 1)

\* compose(t, sources): overlay every source, lowest precedence first, on a
\* copy of t; (nil, err) on the first overlay error
compose_reversed(t, sources) ==
    composeFrom(realDeepCopy(t)[1],
                [i \in 1..Len(sources) |-> sources[Len(sources) + 1 - i]], 1)
compose_copyPerSource(t, sources) ==
    composeFrom(realDeepCopy(t)[1],
                IF sources = <<>> THEN <<>> ELSE <<sources[Len(sources)]>>, 1)
compose(t, sources) == composeFrom(realDeepCopy(t)[1], sources, 1)

\* ------------------------------------------------------------ state
VARIABLES
    watcher,        \* watcher[s]: source s implements Watcher
    hasVerify,      \* the config type implements VerifiedConfig
    hasHandler,     \* p.OnWatchedError # nil
    tIsPtr,         \* the t handed to Config is a pointer
    callerCfg,      \* the caller's own instance, the t handed to Config
    cfgPc,          \* where Config is: start, value, watch, compose, returned
    idx,            \* the source the loop of Config is at
    tVal,           \* Config's deep copy of t; the monitor's t
    sourceValues,   \* Config's computed, then the monitor's sourceValues
    someoneWatching,
    registered,     \* sources whose Watch got the deliver callback
    ret,            \* what Config returned: [d, err]
    pub,            \* d.value
    updatesChan,    \* d.updatesChan, capacity 1
    monPc,          \* the monitor: idle (never started), select, notify, exited
    newInterface,   \* the monitor's candidate between Store and the send
    inflight,       \* inflight[s]: the value of a deliver call blocked in its select
    nEvents,        \* deliver calls made so far
    processed,      \* events the monitor has received
    ctxDone,        \* ctx is canceled
    errCalls,       \* the calls of OnWatchedError, in order
    viewed,         \* what the reader's last View returned
    received,       \* what the consumer last received from Events
    snapshots,      \* the snapshot objects handed to d.value.Store, by address
    pubId,          \* the address d.value holds, 0 for none
    viewedId,       \* the address the reader's last View returned, 0 for none
    target,         \* the blankConfig of the last Fill call, as the call left it
    fillPanic,      \* the last Fill call panicked
    chanIds,        \* the addresses of the notifications in updatesChan
    receivedId,     \* the address of what the consumer last received, 0 for none
    composeArgs,    \* SpecCompose: the arguments of a compose call
    composeRet      \* SpecCompose: what it returned

vars == <<watcher, hasVerify, hasHandler, tIsPtr, callerCfg, cfgPc, idx, tVal,
          sourceValues, someoneWatching, registered, ret, pub, updatesChan,
          monPc, newInterface, inflight, nEvents, processed, ctxDone,
          errCalls, viewed, received, snapshots, pubId, viewedId,
          target, fillPanic, chanIds, receivedId,
          composeArgs, composeRet>>

cfgVars == <<cfgPc, idx, tVal, someoneWatching, registered, ret>>
monVars == <<monPc, newInterface, processed, errCalls>>
pureVars == <<composeArgs, composeRet>>
envVars == <<watcher, hasVerify, hasHandler, tIsPtr>>
heapVars == <<snapshots, pubId>>
fillVars == <<target, fillPanic>>
noteVars == <<chanIds, receivedId>>

NoCall == [t |-> Nil, sources |-> <<>>]
NoRet == [val |-> Nil, err |-> "pending"]

Init ==
    /\ watcher \in [Sources -> BOOLEAN]
    /\ hasVerify \in BOOLEAN
    /\ hasHandler \in BOOLEAN
    /\ tIsPtr \in BOOLEAN
    /\ callerCfg = DefaultCfg
    /\ cfgPc = "start"
    /\ idx = 1
    /\ tVal = Nil
    /\ sourceValues = <<>>
    /\ someoneWatching = FALSE
    /\ registered = {}
    /\ ret = [d |-> Nil, err |-> "none"]
    /\ pub = Nil
    /\ updatesChan = <<>>
    /\ monPc = "idle"
    /\ newInterface = Nil
    /\ inflight = [s \in Sources |-> Nil]
    /\ nEvents = 0
    /\ processed = 0
    /\ ctxDone = FALSE
    /\ errCalls = <<>>
    /\ viewed = Nil
    /\ received = Nil
    /\ snapshots = <<>>
    /\ pubId = 0
    /\ viewedId = 0
    /\ target = Nil
    /\ fillPanic = FALSE
    /\ chanIds = <<>>
    /\ receivedId = 0
    /\ composeArgs = NoCall
    /\ composeRet = NoRet

\* ------------------------------------------------------------ Config
\* Verify of the config type: this one rejects A = 1 together with N.X = 1
Verify(cfg) == IF hasVerify /\ cfg.A = 1 /\ cfg.N.X = 1 THEN "verify" ELSE "none"

\* return nil, err
Fail(e) ==
    /\ ret' = [d |-> Nil, err |-> e]
    /\ cfgPc' = "returned"

\* the pointer check and the deep copy of t
ConfigStart ==
    /\ cfgPc = "start"
    /\ IF ~tIsPtr
       THEN /\ Fail("notptr")
            /\ UNCHANGED <<idx, tVal, someoneWatching, registered>>
       ELSE /\ tVal' = realDeepCopy(Ptr(callerCfg))
            /\ cfgPc' = "value"
            /\ UNCHANGED <<idx, someoneWatching, registered, ret>>
    /\ UNCHANGED <<envVars, callerCfg, sourceValues, pub, updatesChan, monVars,
                   inflight, nEvents, ctxDone, viewed, received, pureVars, heapVars, viewedId, fillVars, noteVars>>

\* where the loop goes after source idx is done
NextSource == IF idx = NumSources THEN "compose" ELSE "value"

\* source.Value(typeInstance) of source idx, and the append to computed
ConfigValue ==
    /\ cfgPc = "value"
    /\ \/ /\ Fail("source")
          /\ UNCHANGED <<idx, sourceValues>>
       \/ \E v \in SourceVals :
            /\ sourceValues' = Append(sourceValues, [source |-> idx, value |-> v])
            /\ IF watcher[idx]
               THEN cfgPc' = "watch" /\ idx' = idx
               ELSE cfgPc' = NextSource /\ idx' = idx + 1
            /\ ret' = ret
    /\ UNCHANGED <<envVars, callerCfg, tVal, someoneWatching, registered, pub,
                   updatesChan, monVars, inflight, nEvents, ctxDone, viewed,
                   received, pureVars, heapVars, viewedId, fillVars, noteVars>>

\* the sources whose Watch holds a deliver callback once source i has one
registerWatch_upfront(reg, i) == reg \cup {j \in Sources : watcher[j]}
registerWatch(reg, i) == reg \cup {i}

\* w.Watch(ctx, typeInstance, deliver) of source idx
ConfigWatch ==
    /\ cfgPc = "watch"
    /\ someoneWatching' = TRUE
    /\ \/ /\ Fail("watch")
          /\ UNCHANGED <<idx, registered>>
       \/ /\ registered' = registerWatch(registered, idx)
          /\ cfgPc' = NextSource
          /\ idx' = idx + 1
          /\ ret' = ret
    /\ UNCHANGED <<envVars, callerCfg, tVal, sourceValues, pub, updatesChan,
                   monVars, inflight, nEvents, ctxDone, viewed, received,
                   pureVars, heapVars, viewedId, fillVars, noteVars>>

\* the object compose works on and returns: realDeepCopy gives a fresh one
newObject_reused(heap) == IF heap = <<>> THEN 1 ELSE Len(heap)
newObject(heap) == Len(heap) + 1

\* the heap once the composed value sits at address id
writeObject(heap, id, cfg) ==
    IF id > Len(heap) THEN Append(heap, cfg) ELSE [heap EXCEPT ![id] = cfg]

\* tVal.Interface(): the t of the initial compose and of the monitor
templateT_caller == Ptr(callerCfg)
templateT == tVal

\* the monitor is started only when a source watches
StartMonitor_never(watching) == "idle"
StartMonitor_always(watching) == "select"
StartMonitor(watching) == IF watching THEN "select" ELSE "idle"

\* what Config returns once the initial value is stored: a Verify error is fatal
ConfigResult_unverified(vfErr) == [d |-> Ptr("d"), err |-> "none"]
ConfigResult_reported(vfErr) == [d |-> Ptr("d"), err |-> vfErr]
ConfigResult(vfErr) ==
    IF vfErr # "none" THEN [d |-> Nil, err |-> vfErr] ELSE [d |-> Ptr("d"), err |-> "none"]

\* the initial compose, the handle, the initial Verify, go d.monitor
ConfigFinish ==
    /\ cfgPc = "compose"
    /\ LET c == compose(templateT, sourceValues)
       IN  IF c.err # "none"
           THEN /\ Fail(c.err)
                /\ UNCHANGED <<pub, monPc, heapVars>>
           ELSE /\ pub' = c.val
                /\ pubId' = newObject(snapshots)
                /\ snapshots' = writeObject(snapshots, pubId', c.val[1])
                /\ ret' = ConfigResult(Verify(c.val[1]))
                /\ cfgPc' = "returned"
                /\ monPc' = IF ret'.d # Nil THEN StartMonitor(someoneWatching) ELSE monPc
    /\ UNCHANGED <<envVars, callerCfg, idx, tVal, sourceValues, someoneWatching,
                   registered, updatesChan, newInterface, processed, errCalls,
                   inflight, nEvents, ctxDone, viewed, received, pureVars,
                   viewedId, fillVars, noteVars>>

\* ------------------------------------------------------------ emitters
\* a watching source calls deliver(ctx, v): the call enters its select
Emit(s, v) ==
    /\ s \in registered
    /\ inflight[s] = Nil
    /\ nEvents < MaxEvents
    /\ inflight' = [inflight EXCEPT ![s] = Ptr(v)]
    /\ nEvents' = nEvents + 1
    /\ UNCHANGED <<envVars, callerCfg, cfgVars, sourceValues, pub, updatesChan,
                   monVars, ctxDone, viewed, received, pureVars, heapVars, viewedId, fillVars, noteVars>>

\* the ctx.Done() case of deliver's select: the call returns, the event is gone
DeliverCancelled_blocked(s) == inflight[s] # Nil /\ ctxDone /\ UNCHANGED vars
DeliverCancelled(s) ==
    /\ inflight[s] # Nil
    /\ ctxDone
    /\ inflight' = [inflight EXCEPT ![s] = Nil]
    /\ UNCHANGED <<envVars, callerCfg, cfgVars, sourceValues, pub, updatesChan,
                   monVars, nEvents, ctxDone, viewed, received, pureVars, heapVars, viewedId, fillVars, noteVars>>

\* the caller cancels ctx
Cancel ==
    /\ ~ctxDone
    /\ ctxDone' = TRUE
    /\ UNCHANGED <<envVars, callerCfg, cfgVars, sourceValues, pub, updatesChan,
                   monVars, inflight, nEvents, viewed, received, pureVars, heapVars, viewedId, fillVars, noteVars>>

\* ------------------------------------------------------------ monitor
\* index of the first sourceValue of the event's source, 0 when there is none
findSource_first(svs, source, i) == IF svs = <<>> THEN 0 ELSE 1
RECURSIVE findSource(_, _, _)
findSource(svs, source, i) ==
    IF i > Len(svs) THEN 0
    ELSE IF svs[i].source = source THEN i
    ELSE findSource(svs, source, i + 1)

\* the loop that stores the event's value in the matching sourceValue
storeValue_dropped(svs, watchTab) == svs
storeValue(svs, watchTab) ==
    LET i == findSource(svs, watchTab.source, 1)
    IN  IF i = 0 THEN svs ELSE [svs EXCEPT ![i].value = watchTab.value]

\* the non-blocking send on updatesChan: dropped when the buffer is full
trySend(ch, v) == IF Len(ch) < 1 THEN Append(ch, v) ELSE ch

\* OnWatchedError(ctx, err, d.value.Load(), newInterface), when configured
reportError(calls, err, old, new) ==
    IF hasHandler
    THEN Append(calls, [err |-> err, old |-> old, new |-> new])
    ELSE calls

\* the error of a candidate: the compose error, else the Verify error
candidateErr_unverified(c) == c.err
candidateErr(c) == IF c.err # "none" THEN c.err ELSE Verify(c.val[1])

\* d.value.Store(newInterface): what d.value holds afterwards
Store_skipped(cur, new) == cur
Store(cur, new) == new

\* the monitor's sourceValues after an event whose candidate had error e: the
\* value was written in place and no path writes the old one back
keptValues_rollback(old, stored, e) == IF e # "none" THEN old ELSE stored
keptValues(old, stored, e) == stored

\* case <-ctx.Done(): return
MonitorExit_ignored == monPc = "select" /\ ctxDone /\ UNCHANGED vars
MonitorExit ==
    /\ monPc = "select"
    /\ ctxDone
    /\ monPc' = "exited"
    /\ UNCHANGED <<envVars, callerCfg, cfgVars, sourceValues, pub, updatesChan,
                   newInterface, processed, errCalls, inflight, nEvents, ctxDone,
                   viewed, received, pureVars, heapVars, viewedId, fillVars, noteVars>>

\* case watchTab := <-watcherChan: store the value, recompose, verify, and
\* either report the error or Store the candidate
MonitorRecv(s) ==
    /\ monPc = "select"
    /\ inflight[s] # Nil
    /\ inflight' = [inflight EXCEPT ![s] = Nil]
    /\ processed' = processed + 1
    /\ LET stored == storeValue(sourceValues,
                                 [source |-> s, value |-> inflight[s][1]])
           c == compose(templateT, stored)
           e == candidateErr(c)
       IN  /\ sourceValues' = keptValues(sourceValues, stored, e)
           /\ IF e # "none"
              THEN /\ errCalls' = reportError(errCalls, e, pub, c.val)
                   /\ UNCHANGED <<pub, newInterface, monPc, heapVars>>
              ELSE /\ LET id == newObject(snapshots)
                          v == Store([val |-> pub, id |-> pubId],
                                     [val |-> c.val, id |-> id])
                      IN  /\ snapshots' = writeObject(snapshots, id, c.val[1])
                          /\ pub' = v.val
                          /\ pubId' = v.id
                   /\ newInterface' = c.val
                   /\ monPc' = "notify"
                   /\ UNCHANGED errCalls
    /\ UNCHANGED <<envVars, callerCfg, cfgVars, updatesChan, nEvents, ctxDone,
                   viewed, received, pureVars, viewedId, fillVars, noteVars>>

\* select { case d.updatesChan <- newInterface: default: }
MonitorNotify ==
    /\ monPc = "notify"
    /\ updatesChan' = trySend(updatesChan, newInterface)
    /\ chanIds' = trySend(chanIds, Len(snapshots))
    /\ monPc' = "select"
    /\ newInterface' = Nil
    /\ UNCHANGED <<envVars, callerCfg, cfgVars, sourceValues, pub, processed,
                   errCalls, inflight, nEvents, ctxDone, viewed, received,
                   pureVars, heapVars, viewedId, fillVars, receivedId>>

\* ------------------------------------------------------------ readers
\* d.View(), by whoever holds the handle
View ==
    /\ ret.d # Nil
    /\ viewed' = pub
    /\ viewedId' = pubId
    /\ viewed' # viewed
    /\ UNCHANGED <<envVars, callerCfg, cfgVars, sourceValues, pub, updatesChan,
                   monVars, inflight, nEvents, ctxDone, received, pureVars,
                   heapVars, fillVars, noteVars>>

\* a receive from d.Events()
EventsRecv ==
    /\ ret.d # Nil
    /\ updatesChan # <<>>
    /\ received' = Head(updatesChan)
    /\ receivedId' = Head(chanIds)
    /\ updatesChan' = Tail(updatesChan)
    /\ chanIds' = Tail(chanIds)
    /\ UNCHANGED <<envVars, callerCfg, cfgVars, sourceValues, pub, monVars,
                   inflight, nEvents, ctxDone, viewed, pureVars, heapVars,
                   viewedId, fillVars>>

\* the caller writes into its own instance after handing it to Config
CallerScribble ==
    /\ cfgPc # "start"
    /\ callerCfg # ScribbledCfg
    /\ callerCfg' = ScribbledCfg
    /\ UNCHANGED <<envVars, cfgVars, sourceValues, pub, updatesChan, monVars,
                   inflight, nEvents, ctxDone, viewed, received, pureVars, heapVars, viewedId, fillVars, noteVars>>

\* ------------------------------------------------------------ Fill
\* reflect.TypeOf(d.value.Load()): compose returns value.Addr().Interface()
TypeOfConfig == "*Config"

\* the blankConfig arguments: a pointer to a config struct, a pointer to
\* another struct, and a config struct passed by value
FillTargets == [type : {"*Config", "*Other", "Config"}, val : {ScribbledCfg}]

\* bVal.Elem().Set(currentVal.Elem())
setElem_skipped(b, current) == b
setElem(b, current) == [b EXCEPT !.val = current]

\* d.Fill(blankConfig)
Fill(b) ==
    /\ ret.d # Nil
    /\ IF b.type # TypeOfConfig
       THEN /\ fillPanic' = TRUE
            /\ target' = Ptr(b)
       ELSE /\ fillPanic' = FALSE
            /\ target' = Ptr(setElem(b, pub[1]))
    /\ UNCHANGED <<envVars, callerCfg, cfgVars, sourceValues, pub, updatesChan,
                   monVars, inflight, nEvents, ctxDone, viewed, received,
                   pureVars, heapVars, viewedId, noteVars>>

Next ==
    \/ ConfigStart
    \/ ConfigValue
    \/ ConfigWatch
    \/ ConfigFinish
    \/ \E s \in Sources, v \in SourceVals : Emit(s, v)
    \/ \E s \in Sources : DeliverCancelled(s)
    \/ Cancel
    \/ MonitorExit
    \/ \E s \in Sources : MonitorRecv(s)
    \/ MonitorNotify
    \/ View
    \/ EventsRecv
    \/ CallerScribble

Spec == Init /\ [][Next]_vars

\* the call of Config, from its entry to its return
Config == ConfigStart \/ ConfigValue \/ ConfigWatch \/ ConfigFinish

\* Config, the emitters, the cancellation, the monitor and a reader.  The
\* consumer of Events and the caller's writes to its own instance are left
\* out: the monitor's send never waits for the one, and nothing reads the other.
NextFair ==
    \/ Config
    \/ \E s \in Sources, v \in SourceVals : Emit(s, v)
    \/ \E s \in Sources : DeliverCancelled(s)
    \/ Cancel
    \/ MonitorExit
    \/ \E s \in Sources : MonitorRecv(s)
    \/ MonitorNotify
    \/ View

\* Config runs to its return, the monitor goroutine is scheduled, a select
\* with a ready case proceeds, and a deliver call whose ctx is done returns
SpecFair ==
    /\ Init /\ [][NextFair]_vars
    /\ WF_vars(Config)
    /\ WF_vars(MonitorExit)
    /\ WF_vars(MonitorNotify)
    /\ \A s \in Sources : WF_vars(DeliverCancelled(s))

TypeOK ==
    /\ cfgPc \in {"start", "value", "watch", "compose", "returned"}
    /\ monPc \in {"idle", "select", "notify", "exited"}
    /\ Len(updatesChan) <= 1
    /\ Len(sourceValues) <= NumSources

\* Config, the emitters, the monitor and a caller of Fill
NextFill ==
    \/ Config
    \/ \E s \in Sources, v \in SourceVals : Emit(s, v)
    \/ \E s \in Sources : MonitorRecv(s)
    \/ MonitorNotify
    \/ \E b \in FillTargets : Fill(b)

SpecFill == Init /\ [][NextFill]_vars

\* ------------------------------------------------------------ compose alone
\* every stack of at most MaxStack source values, well shaped or not
StackVals == OptValues \cup {BadShape}
Stacks(max) == UNION {[1..n -> StackVals] : n \in 0..max}
AsSourceValues(stk) == [i \in 1..Len(stk) |-> [source |-> i, value |-> stk[i]]]

InitCompose ==
    /\ watcher = [s \in Sources |-> FALSE]
    /\ hasVerify = FALSE
    /\ hasHandler = FALSE
    /\ tIsPtr = TRUE
    /\ callerCfg = DefaultCfg
    /\ cfgPc = "start"
    /\ idx = 1
    /\ tVal = Nil
    /\ sourceValues = <<>>
    /\ someoneWatching = FALSE
    /\ registered = {}
    /\ ret = [d |-> Nil, err |-> "none"]
    /\ pub = Nil
    /\ updatesChan = <<>>
    /\ monPc = "idle"
    /\ newInterface = Nil
    /\ inflight = [s \in Sources |-> Nil]
    /\ nEvents = 0
    /\ processed = 0
    /\ ctxDone = FALSE
    /\ errCalls = <<>>
    /\ viewed = Nil
    /\ received = Nil
    /\ snapshots = <<>>
    /\ pubId = 0
    /\ viewedId = 0
    /\ target = Nil
    /\ fillPanic = FALSE
    /\ chanIds = <<>>
    /\ receivedId = 0
    /\ \E stk \in Stacks(MaxStack) :
         composeArgs = [t |-> Ptr(DefaultCfg), sources |-> AsSourceValues(stk)]
    /\ composeRet = NoRet

\* one call compose(t, sources)
ComposeCall ==
    /\ composeRet = NoRet
    /\ composeRet' = compose(composeArgs.t, composeArgs.sources)
    /\ UNCHANGED <<envVars, callerCfg, cfgVars, sourceValues, pub, updatesChan,
                   monVars, inflight, nEvents, ctxDone, viewed, received,
                   heapVars, viewedId, fillVars, noteVars, composeArgs>>

NextCompose == ComposeCall

SpecCompose == InitCompose /\ [][NextCompose]_vars

\* ------------------------------------------------------------ leaves
Leaves == {"A", "X", "Y"}

\* whether a pointerified value sets leaf f, and the value it sets it to
Sets(sv, f) ==
    /\ sv.shape = "ok"
    /\ CASE f = "A" -> sv.A # Nil
         [] f = "X" -> sv.N # Nil /\ sv.N[1].X # Nil
         [] f = "Y" -> sv.N # Nil /\ sv.N[1].Y # Nil

SetTo(sv, f) ==
    CASE f = "A" -> sv.A[1]
      [] f = "X" -> sv.N[1].X[1]
      [] f = "Y" -> sv.N[1].Y[1]

\* leaf f of a config value
Leaf(cfg, f) ==
    CASE f = "A" -> cfg.A
      [] f = "X" -> cfg.N.X
      [] f = "Y" -> cfg.N.Y

\* the sources of a stack that set leaf f
Setters(svs, f) == {i \in 1..Len(svs) : Sets(svs[i].value, f)}
Highest(S) == CHOOSE i \in S : \A j \in S : j <= i

\* ------------------------------------------------------------ watch events
\* the monitor receives the event of source s in this step
Receives(s) ==
    /\ processed' = processed + 1
    /\ inflight[s] # Nil
    /\ inflight'[s] = Nil

\* the stored values with the entry of source s replaced by v, the others kept
Replaced(s, v) ==
    [i \in 1..Len(sourceValues) |->
        IF sourceValues[i].source = s
        THEN [source |-> s, value |-> v]
        ELSE sourceValues[i]]

\* the candidate of the event of source s: the composition of Replaced
Candidate(s) == compose(tVal, Replaced(s, inflight[s][1]))

\* C1: when the monitor processes an event (S, v) and both the recomposition
\* and Verify succeed, the published snapshot is afterwards the composition,
\* in precedence order, of the stored values with S's entry replaced by v and
\* every other entry unchanged.
C1_UpdatePublishesReplaced ==
    [][\A s \in Sources :
         (/\ Receives(s)
          /\ Candidate(s).err = "none"
          /\ Verify(Candidate(s).val[1]) = "none")
         => /\ pub' = Candidate(s).val
            /\ sourceValues' = Replaced(s, inflight[s][1])]_vars

\* sources [{A:1}, {A:1}], then source 2 emits {X:1}: the snapshot is {A:1, X:1}
C1_Witness ==
    /\ processed = 1
    /\ monPc = "notify"
    /\ sourceValues = <<[source |-> 1, value |-> SetA(1)],
                        [source |-> 2, value |-> SetX(1)]>>
    /\ pub = Ptr([A |-> 1, N |-> [X |-> 1, Y |-> 7]])

\* C2: the Events channel is latest-value-wins: once the monitor has
\* published and made its send attempt, a notification held by the channel
\* is the most recently published snapshot.
C2_LatestValueWins ==
    (monPc \in {"select", "exited"} /\ updatesChan # <<>>)
        => updatesChan[1] = pub

\* C3: when the candidate of an event composes and its Verify fails, the
\* published snapshot and the Events channel are left alone, the error
\* callback (if configured) is called exactly once with the published
\* snapshot as old and the rejected candidate as new config, and the monitor
\* is back at its select.
C3_VerifyGating ==
    [][\A s \in Sources :
         (/\ Receives(s)
          /\ Candidate(s).err = "none"
          /\ Verify(Candidate(s).val[1]) # "none")
         => /\ pub' = pub
            /\ updatesChan' = updatesChan
            /\ monPc' = "select"
            /\ errCalls' =
                 IF hasHandler
                 THEN Append(errCalls, [err |-> "verify", old |-> pub,
                                        new |-> Candidate(s).val])
                 ELSE errCalls]_vars

\* a rejected update was reported, and a later event has been published
C3_Witness ==
    /\ hasHandler
    /\ Len(errCalls) = 1
    /\ errCalls[1].err = "verify"
    /\ errCalls[1].new # Nil
    /\ errCalls[1].old # pub
    /\ processed = 2
    /\ monPc = "notify"

\* C4: when the recomposition of an event fails with a merge error, the
\* published snapshot and the Events channel are left alone, the configured
\* callback is called with (published snapshot, failed candidate, error),
\* nothing is called when none is configured, and the monitor is back at its
\* select.
C4_ComposeFailureReported ==
    [][\A s \in Sources :
         (Receives(s) /\ Candidate(s).err # "none")
         => /\ pub' = pub
            /\ updatesChan' = updatesChan
            /\ monPc' = "select"
            /\ IF hasHandler
               THEN /\ Len(errCalls') = Len(errCalls) + 1
                    /\ SubSeq(errCalls', 1, Len(errCalls)) = errCalls
                    /\ errCalls'[Len(errCalls')].err = "merge"
                    /\ errCalls'[Len(errCalls')].old = pub
                    /\ errCalls'[Len(errCalls')].new # Nil
               ELSE errCalls' = errCalls]_vars

\* C5: on every call of OnWatchedError both oldConfig and newConfig are
\* populated (non-nil).
C5_HandlerArgsPopulated ==
    \A i \in 1..Len(errCalls) : errCalls[i].old # Nil /\ errCalls[i].new # Nil

\* C6: construction is all-or-nothing.  When Config returned an error there is
\* no handle, the monitor was never started and no reader has observed a
\* snapshot; a handle is returned only for a pointer target whose sources all
\* returned a value, whose watchers all registered, and whose initial snapshot
\* composed and verified.  A Verify failure of a watched update leaves the
\* returned handle in place.
C6_AllOrNothing ==
    /\ ret.err # "none" =>
         /\ cfgPc = "returned"
         /\ ret.d = Nil
         /\ monPc = "idle"
         /\ viewed = Nil
         /\ received = Nil
         /\ updatesChan = <<>>
         /\ processed = 0
    /\ ret.d # Nil =>
         /\ tIsPtr
         /\ Len(sourceValues) = NumSources
         /\ \A s \in Sources : watcher[s] => s \in registered
         /\ pub # Nil
         /\ Verify(pub[1]) = "none"
    /\ (\E i \in 1..Len(errCalls) : errCalls[i].err = "verify") => ret.d # Nil

\* the initial Verify failed after an earlier source had registered its watch
\* and a value was stored in the unreturned handle
C6_Witness ==
    /\ ret.err = "verify"
    /\ ret.d = Nil
    /\ pub # Nil
    /\ registered # {}
    /\ inflight # [s \in Sources |-> Nil]

\* no source handed to Config implements Watcher
NoWatcher == \A s \in Sources : ~watcher[s]

\* C7: when no source implements Watcher, no monitor is started, the published
\* snapshot never changes once stored, and Events never gets a notification.
C7_NoWatchImmutable ==
    /\ [](NoWatcher => (monPc = "idle" /\ updatesChan = <<>> /\ received = Nil))
    /\ [][(NoWatcher /\ pub # Nil) => pub' = pub]_vars

\* a handle without watchers whose snapshot a reader has seen, after the
\* context was canceled and the caller changed its own instance
C7_Witness ==
    /\ NoWatcher
    /\ ret.d # Nil
    /\ viewed = pub
    /\ pub # Nil
    /\ ctxDone
    /\ callerCfg = ScribbledCfg

\* ------------------------------------------------------------ composition
\* the value the sources below index j leave in leaf f of a copy of t
Below(t, svs, j, f) ==
    LET S == {i \in Setters(svs, f) : i < j}
    IN  IF S = {} THEN Leaf(t, f) ELSE SetTo(svs[Highest(S)].value, f)

\* C8: precedence and partial override.  For every stack of source values
\* that composes and every leaf F that some source sets, the composed F is
\* the F of the highest-index source that sets it; sources that leave F unset
\* do not change it.
C8_Precedence ==
    composeRet.err = "none" =>
        \A f \in Leaves :
            LET S == Setters(composeArgs.sources, f)
            IN  S # {} =>
                  Leaf(composeRet.val[1], f)
                      = SetTo(composeArgs.sources[Highest(S)].value, f)

\* A sets A and N.X, B above it sets a different A only: B's A, A's N.X
C8_Witness ==
    /\ composeRet.err = "none"
    /\ Len(composeArgs.sources) = 2
    /\ Sets(composeArgs.sources[1].value, "A")
    /\ Sets(composeArgs.sources[1].value, "X")
    /\ composeArgs.sources[2].value = SetA(2)
    /\ composeArgs.sources[1].value.A = Ptr(1)
    /\ composeRet.val[1].A = 2
    /\ composeRet.val[1].N.X = composeArgs.sources[1].value.N[1].X[1]

\* C9: nested merge.  A source that sets the nested field but leaves its leaf
\* F unset does not reset or replace F: when no higher source sets F, the
\* composed F is what the sources below it left there (the F of the highest
\* lower source that sets it, else the F of t), so two sources that set
\* different leaves of the nested field both contribute.
C9_NestedMerge ==
    composeRet.err = "none" =>
        \A f \in {"X", "Y"} :
            \A j \in 1..Len(composeArgs.sources) :
                (/\ composeArgs.sources[j].value.N # Nil
                 /\ ~Sets(composeArgs.sources[j].value, f)
                 /\ \A k \in Setters(composeArgs.sources, f) : k < j)
                => Leaf(composeRet.val[1], f)
                     = Below(composeArgs.t[1], composeArgs.sources, j, f)

\* one source sets only N.X, the next only N.Y: the nested field has both
C9_Witness ==
    /\ composeRet.err = "none"
    /\ Len(composeArgs.sources) = 2
    /\ composeArgs.sources[1].value.N = Ptr([X |-> Ptr(1), Y |-> Nil])
    /\ composeArgs.sources[2].value.N = Ptr([X |-> Nil, Y |-> Ptr(2)])
    /\ composeRet.val[1].N = [X |-> 1, Y |-> 2]

\* ------------------------------------------------------------ defaults
\* the step stores a snapshot: the initial one, or one of the monitor
Publishes ==
    \/ cfgPc = "compose" /\ pub' # Nil
    \/ processed' = processed + 1 /\ monPc' = "notify"

\* C10: every snapshot, the initial one and every recomposed one, has in each
\* leaf that no stored source value sets the value of the instance that was
\* handed to Config, whatever the caller did to its instance since; and no
\* step of Config or of the monitor changes the caller's instance.
C10_DefaultsKept ==
    /\ [][Publishes =>
            \A f \in Leaves :
                Setters(sourceValues', f) = {}
                    => Leaf(pub'[1], f) = Leaf(DefaultCfg, f)]_vars
    /\ [][callerCfg' # callerCfg =>
            UNCHANGED <<cfgVars, monVars, sourceValues, pub, updatesChan>>]_vars

\* the caller has overwritten its instance, and a snapshot recomposed after
\* that from sources that set only A still has the defaults of N
C10_Witness ==
    /\ callerCfg = ScribbledCfg
    /\ processed = 2
    /\ monPc = "notify"
    /\ \A i \in 1..Len(sourceValues) : sourceValues[i].value = SetA(1)
    /\ pub = Ptr([A |-> 1, N |-> DefaultCfg.N])

\* ------------------------------------------------------------ atomic swap
\* the object at address id still holds the contents p points to
Intact(p, id) == p # Nil => id \in 1..Len(snapshots) /\ p = Ptr(snapshots[id])

\* C11: the published snapshot is swapped wholesale through one atomic
\* reference that, after construction, only a receive step of the monitor
\* writes; a View is a single step that is enabled whenever a handle exists
\* and returns the complete snapshot published before or after a concurrent
\* monitor step; and no stored snapshot object is ever written again, so what
\* a reader holds and what d.value holds stay as they were stored.
C11_AtomicSwap ==
    /\ [](Intact(pub, pubId) /\ Intact(viewed, viewedId))
    /\ [](ret.d # Nil => pub # Nil)
    /\ [][\A k \in 1..Len(snapshots) :
             Len(snapshots') >= k /\ snapshots'[k] = snapshots[k]]_vars
    /\ [][(pub' # pub \/ pubId' # pubId) /\ cfgPc = "returned"
             => \E s \in Sources : Receives(s)]_vars
    /\ [][viewedId' # viewedId
             => /\ viewedId' = pubId /\ viewed' = pub
                /\ UNCHANGED <<pub, heapVars>>]_vars

\* a reader holds the initial snapshot while the monitor has published two
\* further ones, and the reader's snapshot is still what it read
C11_Witness ==
    /\ viewedId = 1
    /\ pubId = 3
    /\ viewed # pub
    /\ viewed = Ptr(snapshots[1])

\* ------------------------------------------------------------ verified
\* Verify accepts the snapshot p points to
Verified(p) == p # Nil => Verify(p[1]) = "none"

\* C12: with a Verify method, whatever a consumer holding a returned handle
\* can observe passed Verify before it became observable: the snapshot View
\* would return, the one a View did return, the notification pending in the
\* Events channel and the one that was received from it.
C12_ObservableVerified ==
    hasVerify =>
        /\ ret.d # Nil => Verified(pub)
        /\ Verified(viewed)
        /\ Verified(received)
        /\ \A i \in 1..Len(updatesChan) : Verified(updatesChan[i])

\* two events were processed, the stored values now compose to a snapshot
\* Verify rejects, and the consumer has received and viewed an accepted one
C12_Witness ==
    /\ hasVerify
    /\ processed = 2
    /\ monPc = "select"
    /\ candidateErr(compose(tVal, sourceValues)) = "verify"
    /\ received # Nil
    /\ viewed = pub

\* ------------------------------------------------------------ cancellation
\* the monitor has returned, or Config returned without starting one
MonitorGone == cfgPc = "returned" /\ monPc \in {"idle", "exited"}

C14_Fill ==
    [][\A b \in FillTargets :
         Fill(b)
         => /\ UNCHANGED <<pub, heapVars, sourceValues, updatesChan>>
            /\ IF b.type = "*Config"
               THEN ~fillPanic' /\ target' = Ptr([b EXCEPT !.val = pub[1]])
               ELSE fillPanic' /\ target' = Ptr(b)]_vars

\* a Fill after two published updates gave the caller the second one
C14_Witness ==
    /\ processed = 2
    /\ pubId = 3
    /\ ~fillPanic
    /\ target # Nil
    /\ target[1].val = pub[1]
    /\ target[1].val # snapshots[1]

\* ------------------------------------------------------------ ordering
\* C15: the monitor receives an event only at its select, with the event
\* before fully handled; the receive stores the event's value as the value
\* of its source and of no other, and appends to the history of published
\* snapshots nothing or the recomposition of exactly that event; and nothing
\* but a receive changes the stored values or the history once Config has
\* returned.  So the history is a subsequence of the recompositions in
\* arrival order, and each source's stored value is that of its last event.
C15_OneAtATimeInOrder ==
    /\ [][\A s \in Sources :
             Receives(s)
             => /\ monPc = "select" /\ newInterface = Nil
                /\ \A r \in Sources \ {s} : inflight'[r] = inflight[r]
                /\ sourceValues' = Replaced(s, inflight[s][1])
                /\ \/ UNCHANGED <<pub, heapVars>>
                   \/ /\ Candidate(s).err = "none"
                      /\ pub' = Candidate(s).val
                      /\ snapshots' = Append(snapshots, Candidate(s).val[1])
                      /\ pubId' = Len(snapshots')]_vars
    /\ [][processed' \in {processed, processed + 1}]_vars
    /\ [][cfgPc = "returned" /\ processed' = processed
             => UNCHANGED <<sourceValues, pub, heapVars>>]_vars

\* two events of two sources were received one after the other, each was
\* published, and each source's stored value is the value of its event
C15_Witness ==
    /\ processed = 2
    /\ monPc = "notify"
    /\ Len(snapshots) = 3
    /\ snapshots[2] # snapshots[3]
    /\ snapshots[1] # snapshots[2]
    /\ sourceValues[1].value = SetX(1)
    /\ sourceValues[2].value = SetA(1)

\* ------------------------------------------------------------ construction
\* the watching sources among the first n
WatchersUpTo(n) == {j \in Sources : j <= n /\ watcher[j]}

\* C16: while Config runs, the values collected so far are those of sources
\* 1, 2, ... in this order, one per Value call; when the Value of source idx
\* is about to be called every watching source before it is registered and
\* no other; when the Watch of source idx is about to be called its own
\* value is collected; only a Value call adds to the collected values and no
\* event is received before Config returns, so the initial snapshot is the
\* composition of the values the Value calls returned.
C16_ConstructionOrder ==
    /\ [](cfgPc \in {"value", "watch", "compose"}
            => /\ \A i \in 1..Len(sourceValues) : sourceValues[i].source = i
               /\ registered \subseteq WatchersUpTo(Len(sourceValues))
               /\ processed = 0)
    /\ [](cfgPc = "value"
            => Len(sourceValues) = idx - 1 /\ registered = WatchersUpTo(idx - 1))
    /\ [](cfgPc = "watch"
            => /\ Len(sourceValues) = idx /\ watcher[idx]
               /\ registered = WatchersUpTo(idx - 1))
    /\ [](cfgPc = "compose"
            => Len(sourceValues) = NumSources /\ registered = WatchersUpTo(NumSources))
    /\ [][cfgPc # "returned" /\ sourceValues' # sourceValues
            => /\ cfgPc = "value"
               /\ Len(sourceValues') = Len(sourceValues) + 1
               /\ SubSeq(sourceValues', 1, Len(sourceValues)) = sourceValues
               /\ UNCHANGED inflight]_vars
    /\ [][cfgPc = "compose" /\ pub' # pub
            => pub' = compose(tVal, sourceValues).val /\ UNCHANGED sourceValues]_vars

\* Config composed the initial snapshot while the first source, registered
\* before the Value call of the second, had an event waiting that sets what
\* no collected value sets
C16_Witness ==
    /\ cfgPc = "returned"
    /\ ret.d # Nil
    /\ processed = 0
    /\ registered = Sources
    /\ inflight[1] = Ptr(SetX(1))
    /\ \A i \in 1..Len(sourceValues) : sourceValues[i].value = SetA(1)
    /\ pub = Ptr([A |-> 1, N |-> DefaultCfg.N])

\* ------------------------------------------------------------ deliver
\* C17: a deliver call ends in one of two ways, its event received by the
\* monitor or its return with ctx cancelled, and its event is not replaced
\* while it waits; and a call that is waiting when ctx is cancelled, or that
\* starts afterwards, eventually returns, also when the monitor has exited
\* or was never started.
C17_DeliverReturns ==
    /\ \A s \in Sources : (inflight[s] # Nil /\ ctxDone) ~> (inflight[s] = Nil)
    /\ [][\A s \in Sources :
             inflight[s] # Nil /\ inflight'[s] # inflight[s]
             => inflight'[s] = Nil /\ (Receives(s) \/ ctxDone)]_vars

\* Config failed after a source was registered, so no monitor was started;
\* that source's deliver call has returned after the cancellation
C17_Witness ==
    /\ cfgPc = "returned"
    /\ ret.d = Nil
    /\ monPc = "idle"
    /\ registered # {}
    /\ ctxDone
    /\ nEvents = 1
    /\ processed = 0
    /\ \A s \in Sources : inflight[s] = Nil

\* ------------------------------------------------------------ no rollback
\* C18: an event whose candidate fails to compose or to verify leaves its
\* value as the stored value of its source and the published snapshot as it
\* was; every event, whatever was rejected before it, is recomposed from
\* the stored values as they are, and is published only when that candidate
\* composes and verifies.
C18_NoRollback ==
    /\ [][\A s \in Sources :
             Receives(s) /\ candidateErr(Candidate(s)) # "none"
             => /\ sourceValues' = Replaced(s, inflight[s][1])
                /\ UNCHANGED <<pub, heapVars, updatesChan>>]_vars
    /\ [][\A s \in Sources :
             Receives(s) /\ pub' # pub
             => /\ candidateErr(Candidate(s)) = "none"
                /\ pub' = Candidate(s).val]_vars

\* source 1 delivered a value that does not merge and then source 2 one that
\* would: both were reported, the first is still stored, and the published
\* snapshot is still the initial one, which has nothing of source 2's event
C18_Witness ==
    /\ processed = 2
    /\ monPc = "select"
    /\ hasHandler
    /\ Len(errCalls) = 2
    /\ sourceValues[1].value = BadShape
    /\ sourceValues[2].value = SetX(1)
    /\ pubId = 1
    /\ pub[1].N.X = DefaultCfg.N.X

\* ------------------------------------------------------------ store, then send
\* the snapshot at address id was installed in d.value: every address up to
\* the installed one was, one Store after the other
Installed(p, id) == id \in 1..pubId /\ p = Ptr(snapshots[id])

\* C19: the monitor's send follows its Store and carries the snapshot it
\* stored; so the channel holds at most one notification, the pending and
\* the received notification are snapshots that were installed, and when the
\* consumer receives one, d.value holds it or one installed after it.
C19_StoreBeforeSend ==
    /\ [](Len(updatesChan) <= 1 /\ pubId = Len(snapshots))
    /\ [](\A i \in 1..Len(updatesChan) : Installed(updatesChan[i], chanIds[i]))
    /\ [](received # Nil => Installed(received, receivedId))
    /\ [][pubId' \in {pubId, pubId + 1}]_vars
    /\ [][monPc # "notify" /\ monPc' = "notify"
            => pubId' = pubId + 1 /\ pub' = newInterface' /\ pub' # Nil]_vars
    /\ [][updatesChan' # updatesChan /\ updatesChan' # <<>>
            => /\ monPc = "notify"
               /\ updatesChan' = <<pub>>
               /\ chanIds' = <<pubId>>
               /\ UNCHANGED <<pub, heapVars>>]_vars
    /\ [][received' # received \/ receivedId' # receivedId
            => /\ updatesChan # <<>>
               /\ received' = updatesChan[1]
               /\ receivedId' <= pubId
               /\ UNCHANGED <<pub, heapVars>>]_vars

\* the consumer receives the notification of the first update after the
\* monitor has already installed the second: View returns the later one
C19_Witness ==
    /\ receivedId = 2
    /\ pubId = 3
    /\ received = Ptr(snapshots[2])
    /\ received # pub
    /\ updatesChan = <<>>

\* ------------------------------------------------------------ early events
\* Config returned an error, so no monitor will ever run
ConfigFailed == cfgPc = "returned" /\ ret.d = Nil

\* Config returned a handle and its monitor is in its loop
MonitorRunning == ret.d # Nil /\ monPc \in {"select", "notify"}

\* C20: while Config runs no monitor runs and no event is received; the
\* step that stores the initial snapshot leaves the waiting deliver calls
\* waiting; a deliver call ends only with ctx cancelled or by a receive of
\* the running monitor, after the initial snapshot was stored, as an update
\* like any other; and a call that waits, also one that started while
\* Config ran, eventually ends or finds the monitor running, unless Config
\* failed.
C20_EarlyEvent ==
    /\ [](cfgPc # "returned" => monPc = "idle" /\ processed = 0)
    /\ [][cfgPc # "returned" /\ cfgPc' = "returned" => UNCHANGED inflight]_vars
    /\ [][\A s \in Sources :
             inflight[s] # Nil /\ inflight'[s] # inflight[s]
             => /\ inflight'[s] = Nil
                /\ \/ ctxDone
                   \/ /\ Receives(s)
                      /\ monPc = "select" /\ ret.d # Nil /\ pubId >= 1
                      /\ sourceValues' = Replaced(s, inflight[s][1])
                      /\ pubId' \in {pubId, pubId + 1}]_vars
    /\ \A s \in Sources :
         inflight[s] # Nil ~> (inflight[s] = Nil \/ MonitorRunning \/ ConfigFailed)

\* Config has collected every value and registered both sources and is
\* about to compose the initial snapshot; a deliver call of each source is
\* waiting, with values no collected value has, and ctx is not cancelled
C20_Witness ==
    /\ cfgPc = "compose"
    /\ registered = Sources
    /\ ~ctxDone
    /\ monPc = "idle"
    /\ \A s \in Sources : inflight[s] = Ptr(SetX(1))
    /\ \A i \in 1..Len(sourceValues) : sourceValues[i].value = SetA(1)

====
